---- MODULE Spec2Model ----
(***************************************************************************)
(* WeChat file classifier: the concurrent relocation engine.               *)
(*                                                                         *)
(* The model follows FileProcessingThread.run and move_file of main.py     *)
(* (the GUI program) and main and move_file of Multithreading.py (the      *)
(* console program).  A run scans the month folders under the input root,  *)
(* groups the files by extension, builds one task per file and hands the   *)
(* tasks to a thread pool; every worker runs move_file, which probes for a *)
(* free destination name and then copies or moves the file.                *)
(*                                                                         *)
(* A file name is a sequence of string tokens whose concatenation is the   *)
(* name: <<"a", "(1)", ".pdf">> is a(1).pdf.  A path is a directory (a     *)
(* sequence of components) and a name.  The file system is a function from *)
(* the paths of the existing regular files to their content.               *)
(***************************************************************************)
EXTENDS Integers, Sequences, FiniteSets, TLC

\* ---------------------------------------------------------------- bounds
\* Source slots: slot i is the one file a run may find in month folder i.
MaxFiles == 3
\* Stand-in for the pool's cap of 32 threads (main.py:147): small enough
\* that a run has more tasks than threads.
PoolCap == 2
\* How many files of the probe chain a.pdf, a(1).pdf, ... may exist in the
\* output tree before the run.
MaxPre == 2
\* How many faults (a source deleted by another process, an I/O error of a
\* copy, move or mkdir) the environment injects into one run.
MaxFaults == 1

Slots == 1..MaxFiles

\* ------------------------------------------------------------- file names
DotToks == {".pdf", ".PDF"}

NameA == <<"a", ".pdf">>
NameB == <<"b", ".PDF">>
NameC == <<"c">>
Names == {NameA, NameB, NameC}

\* The text "(n)" of f"{stem}({counter}){suffix}".
CounterTok(n) == "(" \o ToString(n) \o ")"

\* PurePath.suffix: the last dot-component of the name, "" when there is none
\* (a name that is only a dot-component, like .bashrc, has no suffix).
Suffix(name) ==
    IF Len(name) > 1 /\ name[Len(name)] \in DotToks THEN name[Len(name)] ELSE ""

\* PurePath.stem: the name without its suffix.
Stem(name) ==
    IF Suffix(name) = "" THEN name ELSE SubSeq(name, 1, Len(name) - 1)

\* str.lower on a suffix.
Lower(s) == IF s = ".PDF" THEN ".pdf" ELSE s

\* suffix[1:] on a lower-cased suffix.
StripDot(s) == IF s = ".pdf" THEN "pdf" ELSE s

\* The classification key of a file name.
Classify(name) ==
    LET suffix == Lower(Suffix(name))
    IN  IF suffix # "" THEN StripDot(suffix) ELSE "no_ext"

\* target.with_name(f"{stem}({counter}){suffix}"): stem and suffix are taken
\* from the target of the moment.
WithCounter(target, counter) ==
    [dir  |-> target.dir,
     name |-> Stem(target.name) \o <<CounterTok(counter)>> \o
              (IF Suffix(target.name) = "" THEN <<>> ELSE <<Suffix(target.name)>>)]

\* ------------------------------------------------------------------ paths
InRoot == <<"in">>
OutRoot == <<"out">>

\* Month folder i of the input root, a name of the form YYYY-MM.
MonthName(i) == "2025-0" \o ToString(i)
MonthDir(i) == InRoot \o <<MonthName(i)>>

SrcPath(i, name) == [dir |-> MonthDir(i), name |-> name]

\* out_root / 'Files' / suf
TypeDir(suf) == OutRoot \o <<"Files", suf>>

\* The modification date of the file of slot i, as strftime('%Y-%m-%d').
DateOf(i) == IF i <= 2 THEN "2025-03-14" ELSE "2025-03-15"

Content(i) == [data |-> i, mtime |-> DateOf(i)]
OldContent == [data |-> 0, mtime |-> "2024-01-01"]

\* The probe chain of move_file for the candidate a.pdf: a.pdf, a(1).pdf,
\* a(1)(2).pdf, ...
RECURSIVE PreChain(_, _, _)
PreChain(target, counter, n) ==
    IF n = 0 THEN {}
    ELSE {target} \cup PreChain(WithCounter(target, counter), counter + 1, n - 1)

Min(a, b) == IF a < b THEN a ELSE b

\* ------------------------------------------------------------------ state
VARIABLES
    variant,        \* "gui" (main.py) or "console" (Multithreading.py)
    copy_only,      \* keep_original: copy instead of move
    use_date,       \* use_date_category
    fs,             \* path -> content, the regular files that exist
    links,          \* path -> path, the symbolic links and what they point to
    dirs,           \* the directories that exist
    fs0,            \* fs when the run started
    dirs0,          \* dirs when the run started
    is_running,     \* FileProcessingThread.is_running
    pc,             \* where the run is
    scanIdx,        \* the month folder the scan loop is at
    files_by_type,  \* sequence of [key, files]: the dict in insertion order
    tasks,          \* sequence of [src, dst, copy_only]
    submitted,      \* how many futures pool.submit has created
    cancelIdx,      \* how many futures the cancel loop has visited
    fut,            \* task -> state of its future
    wpc,            \* task -> where move_file is
    target,         \* task -> move_file's target
    counter,        \* task -> move_file's counter
    probed,         \* task -> move_file found its target free and left the loop
    outcome,        \* task -> "none", "ok" or "failed": how move_file ended
    clobbered,      \* the writes that replaced an existing file
    extDeleted,     \* source paths another process deleted
    faults,         \* faults injected so far
    mkdirFailed,    \* the key whose type directory could not be created
    consumed,       \* tasks whose result the aggregation loop handled
    completed,      \* the completed counter
    errLogged,      \* tasks reported by an error line
    progress,       \* the last value emitted by progress_updated
    logged,         \* the k of every line "completed k/total", in order
    status,         \* the status line that ended the run
    stopSeen,       \* is_running was cleared when status was decided
    finished,       \* emissions of the finished signal
    Start_2,        \* the Start button is enabled
    Cancel_2,       \* the Cancel button is enabled
    processing_thread,  \* MainWindow.processing_thread: a thread, 0 for None
    threads,        \* thread -> where its run() is, and its is_running
    events          \* the finished signals queued for the window, oldest first

\* How many threads the window starts, one after the other.
MaxThreads == 3

Threads == 1..MaxThreads

vars == <<variant, copy_only, use_date, fs, links, dirs, fs0, dirs0, is_running, pc,
          scanIdx, files_by_type, tasks, submitted, cancelIdx, fut, wpc, target,
          counter, probed, outcome, clobbered, extDeleted, faults, mkdirFailed,
          consumed, completed, errLogged, progress, logged, status, stopSeen,
          finished, Start_2, Cancel_2, processing_thread, threads, events>>

\* The window of the GUI program.
window == <<Start_2, Cancel_2, processing_thread, threads, events>>

\* What no step of a run changes: its options, the symbolic links, the trees
\* it started on, and the window.
config == <<variant, copy_only, use_date, links, fs0, dirs0, window>>
workerVars == <<wpc, target, counter, probed, outcome, clobbered>>
scanVars == <<scanIdx, files_by_type>>
poolVars == <<submitted, cancelIdx, fut>>
aggVars == <<consumed, completed, errLogged, progress, logged>>
faultVars == <<faults, mkdirFailed>>

Exists(p) == p \in DOMAIN fs

TaskIds == 1..Len(tasks)

\* ------------------------------------------------------------------- Init
\* The names the file of slot i may have: a.pdf, which every slot may hold
\* (in its own month folder), or a name of another key.
SlotNames(i) ==
    IF i = 1 THEN {NameA} ELSE IF i % 2 = 0 THEN {NameA, NameB} ELSE {NameA, NameC}

\* The source trees: slots 1..n hold an entry each.
SourceTrees ==
    UNION {{t \in [1..n -> Names] : \A i \in 1..n : t[i] \in SlotNames(i)} :
           n \in 0..MaxFiles}

\* The entry of slot l, when l is not 0, is a symbolic link to the file of
\* slot 1; every other entry is a regular file.
SourceFiles(tree, l) == {SrcPath(i, tree[i]) : i \in DOMAIN tree \ {l}}

InitLinks(tree, l) ==
    [p \in {SrcPath(i, tree[i]) : i \in DOMAIN tree \cap {l}} |-> SrcPath(1, tree[1])]

\* The output trees before the run: a prefix of a.pdf's probe chain.
PreFiles(k) == PreChain([dir |-> TypeDir("pdf"), name |-> NameA], 1, k)

InitFs(tree, l, k) ==
    [p \in SourceFiles(tree, l) \cup PreFiles(k) |->
        IF p \in PreFiles(k) THEN OldContent
        ELSE Content(CHOOSE i \in DOMAIN tree : SrcPath(i, tree[i]) = p)]

\* The month folders, a folder inside the first of them, and the output
\* directories the files of before the run are in.
InitDirs(valid, k) ==
    (IF valid THEN {InRoot, MonthDir(1) \o <<"sub">>} \cup {MonthDir(i) : i \in Slots}
     ELSE {})
    \cup (IF k > 0 THEN {OutRoot, OutRoot \o <<"Files">>, TypeDir("pdf")} ELSE {OutRoot})

\* A thread that was not created yet.
NoThread == [at |-> "none", is_running |-> FALSE]

\* A thread after FileProcessingThread(...) and start().
NewThread == [at |-> "run", is_running |-> TRUE]

\* The window while the run of its first thread is on (lines 262-274).
WindowRunning ==
    /\ Start_2 = FALSE
    /\ Cancel_2 = TRUE
    /\ processing_thread = 1
    /\ threads = [t \in Threads |-> IF t = 1 THEN NewThread ELSE NoThread]
    /\ events = <<>>

Init ==
    /\ WindowRunning
    /\ variant \in {"gui", "console"}
    /\ copy_only \in BOOLEAN
    /\ use_date \in BOOLEAN
    /\ \E valid \in BOOLEAN, tree \in SourceTrees, k \in 0..MaxPre :
          /\ valid \/ tree = <<>>
          /\ \E l \in {0} \cup (DOMAIN tree \ {1}) :
                /\ fs = InitFs(tree, l, k)
                /\ links = InitLinks(tree, l)
          /\ dirs = InitDirs(valid, k)
    /\ fs0 = fs
    /\ dirs0 = dirs
    /\ is_running = TRUE
    /\ pc = "validate"
    /\ scanIdx = 1
    /\ files_by_type = <<>>
    /\ tasks = <<>>
    /\ submitted = 0
    /\ cancelIdx = 0
    /\ fut = <<>>
    /\ wpc = <<>>
    /\ target = <<>>
    /\ counter = <<>>
    /\ probed = <<>>
    /\ outcome = <<>>
    /\ clobbered = {}
    /\ extDeleted = {}
    /\ faults = 0
    /\ mkdirFailed = "none"
    /\ consumed = {}
    /\ completed = 0
    /\ errLogged = {}
    /\ progress = 0
    /\ logged = <<>>
    /\ status = "none"
    /\ stopSeen = FALSE
    /\ finished = 0

\* ------------------------------------------------------- the run: scanning
\* An early return of run(): the status line, finished.emit(), and return
\* into the finally clause.
EarlyReturn(line) ==
    /\ status' = line
    /\ stopSeen' = ~is_running
    /\ finished' = IF variant = "gui" THEN finished + 1 ELSE finished
    /\ pc' = IF variant = "gui" THEN "finally" ELSE "done"

\* Faulty variant: the root is never checked.
RootIsDirAlways == TRUE

\* wechat_dir.is_dir()
RootIsDir == InRoot \in dirs

\* if not wechat_dir.is_dir(): report and return (console: sys.exit(1)).
Validate ==
    /\ pc = "validate"
    /\ IF RootIsDir
       THEN /\ pc' = "scan"
            /\ UNCHANGED <<status, stopSeen, finished>>
       ELSE EarlyReturn("invalid_root")
    /\ UNCHANGED <<config, fs, dirs, is_running, scanVars, tasks, poolVars,
                   workerVars, extDeleted, faultVars, aggVars>>

\* p.is_dir() for a folder of the root with a name of the form YYYY-MM.
IsMonthDir(d) == d \in dirs

\* month_dirs: the sub-directories of the root named YYYY-MM, in the order
\* of the listing.
month_dirs == SelectSeq([i \in Slots |-> MonthDir(i)], IsMonthDir)

\* files_by_type[suffix].append(path)
AddFile(buckets, key, path) ==
    IF \E j \in DOMAIN buckets : buckets[j].key = key
    THEN [j \in DOMAIN buckets |->
            IF buckets[j].key = key
            THEN [key |-> key, files |-> Append(buckets[j].files, path)]
            ELSE buckets[j]]
    ELSE Append(buckets, [key |-> key, files |-> <<path>>])

\* month_folder.rglob('*'): the entries below the folder, be they regular
\* files, symbolic links or directories.
Listing(folder) ==
    {p \in DOMAIN fs \cup DOMAIN links : p.dir = folder} \cup
    {[dir |-> folder, name |-> <<d[Len(d)]>>] :
        d \in {e \in dirs : Len(e) = Len(folder) + 1 /\ SubSeq(e, 1, Len(folder)) = folder}}

\* file_path.resolve(): the path with its symbolic link followed.
Resolve(p) == IF p \in DOMAIN links THEN links[p] ELSE p

\* file_path.is_file(): a regular file, or a symbolic link that leads to one.
IsFile(p) == Resolve(p) \in DOMAIN fs

\* The body of the loop over rglob for the entries that pass is_file(): the
\* key comes from the entry's own name, the recorded path is the resolved one.
RECURSIVE AddAll(_, _)
AddAll(buckets, paths) ==
    IF paths = {} THEN buckets
    ELSE LET p == CHOOSE q \in paths : TRUE
         IN  AddAll(AddFile(buckets, Classify(p.name), Resolve(p)), paths \ {p})

FilesUnder(folder) == {p \in Listing(folder) : IsFile(p)}

\* One iteration of the scan loop: leave it when the run was stopped (GUI),
\* otherwise record every regular file of the folder under its key.
ScanFolder ==
    /\ pc = "scan"
    /\ IF scanIdx > Len(month_dirs) \/ (variant = "gui" /\ ~is_running)
       THEN /\ pc' = IF variant = "gui" THEN "post_scan" ELSE "prepare"
            /\ UNCHANGED scanVars
       ELSE /\ files_by_type' = AddAll(files_by_type, FilesUnder(month_dirs[scanIdx]))
            /\ scanIdx' = scanIdx + 1
            /\ pc' = pc
    /\ UNCHANGED <<config, fs, dirs, is_running, tasks, poolVars, workerVars,
                   extDeleted, faultVars, aggVars, status, stopSeen, finished>>

\* if not self.is_running: report the cancellation and return.
PostScanCheck ==
    /\ pc = "post_scan"
    /\ IF ~is_running
       THEN EarlyReturn("scan_cancelled")
       ELSE /\ pc' = "prepare"
            /\ UNCHANGED <<status, stopSeen, finished>>
    /\ UNCHANGED <<config, fs, dirs, is_running, scanVars, tasks, poolVars,
                   workerVars, extDeleted, faultVars, aggVars>>

\* ------------------------------------------------------ the run: the tasks
\* total_files = sum(len(v) for v in files_by_type.values())
RECURSIVE total_files(_)
total_files(buckets) ==
    IF buckets = <<>> THEN 0
    ELSE Len(Head(buckets).files) + total_files(Tail(buckets))

\* The keys of files_by_type, in insertion order.
Keys == {files_by_type[j].key : j \in DOMAIN files_by_type}

\* Variant: the collision loop run while the task list is built, so that a
\* task carries a destination that was free at that moment.
RECURSIVE FirstFree(_, _)
FirstFree(t, c) == IF Exists(t) THEN FirstFree(WithCounter(t, c), c + 1) ELSE t

DestinationResolved(suf, src) ==
    FirstFree([dir |-> TypeDir(suf), name |-> src.name], 1)

\* The destination of one source file: type_dir / name, or with the date
\* switch type_dir / date / name; when stat() fails (the source is gone) the
\* warning is reported and the file goes to the type directory.
Destination(suf, src) ==
    IF use_date /\ Exists(src)
    THEN [dir |-> TypeDir(suf) \o <<fs[src].mtime>>, name |-> src.name]
    ELSE [dir |-> TypeDir(suf), name |-> src.name]

\* tasks.append((src, dst, keep_original)) for every file of every bucket.
RECURSIVE BucketTasks(_, _)
BucketTasks(suf, file_list) ==
    IF file_list = <<>> THEN <<>>
    ELSE <<[src |-> Head(file_list), dst |-> Destination(suf, Head(file_list)),
            copy_only |-> copy_only]>> \o BucketTasks(suf, Tail(file_list))

\* Faulty variant: only the files of the first key become tasks.
BuildTasksFirstKey(buckets) ==
    IF buckets = <<>> THEN <<>>
    ELSE BucketTasks(Head(buckets).key, Head(buckets).files)

RECURSIVE BuildTasks(_)
BuildTasks(buckets) ==
    IF buckets = <<>> THEN <<>>
    ELSE BucketTasks(Head(buckets).key, Head(buckets).files) \o BuildTasks(Tail(buckets))

\* The directories mkdir(parents=True, exist_ok=True) leaves behind.
Parents(d) == {SubSeq(d, 1, k) : k \in 1..Len(d)}

MadeDirs(ts) ==
    UNION {Parents(TypeDir(k)) : k \in Keys} \cup
    UNION {Parents(ts[i].dst.dir) : i \in DOMAIN ts}

\* WORKERS = min(32, len(tasks))
WORKERS == Min(PoolCap, Len(tasks))

\* The directories the loop of lines 111-114 has made when the mkdir of the
\* j-th key raises: those of the keys before it.
MadeBefore(j) ==
    UNION {Parents(TypeDir(files_by_type[m].key)) : m \in 1..(j - 1)}

\* Lines 95-145: create the type directories, build the task list, and
\* return when it is empty.  The mkdir of a type directory that does not
\* exist yet may fail (j is the index of its key, 0 when none fails); the
\* exception is not caught in the loop and leaves run() for its handler.
Prepare ==
    /\ pc = "prepare"
    /\ \E j \in 0..Len(files_by_type) :
          /\ j > 0 => faults < MaxFaults /\ TypeDir(files_by_type[j].key) \notin dirs
          /\ IF j > 0
             THEN /\ faults' = faults + 1
                  /\ mkdirFailed' = files_by_type[j].key
                  /\ dirs' = dirs \cup MadeBefore(j)
                  /\ pc' = "except"
                  /\ UNCHANGED <<tasks, fut, wpc, target, counter, probed,
                                 outcome, status, stopSeen, finished>>
             ELSE LET ts == BuildTasks(files_by_type) IN
                  /\ UNCHANGED faultVars
                  /\ dirs' = dirs \cup MadeDirs(ts)
                  /\ tasks' = ts
                  /\ fut' = [i \in DOMAIN ts |-> "none"]
                  /\ wpc' = [i \in DOMAIN ts |-> "idle"]
                  /\ target' = [i \in DOMAIN ts |-> ts[i].dst]
                  /\ counter' = [i \in DOMAIN ts |-> 1]
                  /\ probed' = [i \in DOMAIN ts |-> FALSE]
                  /\ outcome' = [i \in DOMAIN ts |-> "none"]
                  /\ IF ts = <<>>
                     THEN EarlyReturn("no_files")
                     ELSE /\ pc' = "submit"
                          /\ UNCHANGED <<status, stopSeen, finished>>
    /\ UNCHANGED <<config, fs, is_running, scanVars, submitted, cancelIdx,
                   clobbered, extDeleted, aggVars>>

\* futures = [pool.submit(move_file, ...) for ... in tasks], one at a time.
Submit ==
    /\ pc = "submit"
    /\ IF submitted < Len(tasks)
       THEN /\ submitted' = submitted + 1
            /\ fut' = [fut EXCEPT ![submitted + 1] = "pending"]
            /\ pc' = pc
       ELSE /\ pc' = "loop"
            /\ UNCHANGED <<submitted, fut>>
    /\ UNCHANGED <<config, fs, dirs, is_running, scanVars, tasks, cancelIdx,
                   workerVars, extDeleted, faultVars, aggVars, status, stopSeen,
                   finished>>

\* ------------------------------------------------------------ move_file
Running == {i \in TaskIds : fut[i] = "running"}
Pending == {i \in TaskIds : fut[i] = "pending"}
Done(i) == fut[i] \in {"finished", "failed"}

\* A pool thread takes the next work item of the queue and starts it; a
\* cancelled future is dropped from the queue.
StartTask(i) ==
    /\ fut[i] = "pending"
    /\ \A j \in Pending : i <= j
    /\ Cardinality(Running) < WORKERS
    /\ fut' = [fut EXCEPT ![i] = "running"]
    /\ wpc' = [wpc EXCEPT ![i] = "probe"]
    /\ UNCHANGED <<config, fs, dirs, is_running, pc, scanVars, tasks, submitted,
                   cancelIdx, target, counter, probed, outcome, clobbered,
                   extDeleted, faultVars, aggVars, status, stopSeen, finished>>

\* Faulty variant: move_file without its collision loop.
TargetExistsNever(i) == FALSE

\* Faulty variant: a collision loop that tests the first target for ever.
TargetExistsStill(i) == Exists(tasks[i].dst)

\* target.exists() in the worker of task i.
TargetExists(i) == Exists(target[i])

\* One test of while target.exists(), and the loop body when it holds.
Probe(i) ==
    /\ fut[i] = "running"
    /\ wpc[i] = "probe"
    /\ IF TargetExists(i)
       THEN /\ target' = [target EXCEPT ![i] = WithCounter(target[i], counter[i])]
            /\ counter' = [counter EXCEPT ![i] = counter[i] + 1]
            /\ UNCHANGED <<wpc, probed>>
       ELSE /\ wpc' = [wpc EXCEPT ![i] = "write"]
            /\ probed' = [probed EXCEPT ![i] = TRUE]
            /\ UNCHANGED <<target, counter>>
    /\ UNCHANGED <<config, fs, dirs, is_running, pc, scanVars, tasks, poolVars,
                   outcome, clobbered, extDeleted, faultVars, aggVars, status,
                   stopSeen, finished>>

\* shutil.move(src, dst): dst holds the content, src is gone.
MoveFile(f, src, dst) ==
    [p \in (DOMAIN f \ {src}) \cup {dst} |-> IF p = dst THEN f[src] ELSE f[p]]

\* shutil.copy2(src, dst): dst holds the content and the modification time.
CopyFile(f, src, dst) ==
    [p \in DOMAIN f \cup {dst} |-> IF p = dst THEN f[src] ELSE f[p]]

\* Faulty variants: move_file ignoring copy_only.
RelocatedByCopy(f, src, dst, copy) == CopyFile(f, src, dst)

RelocatedByMove(f, src, dst, copy) == MoveFile(f, src, dst)

\* The file system after move_file's copy or move.
Relocated(f, src, dst, copy) ==
    IF copy THEN CopyFile(f, src, dst) ELSE MoveFile(f, src, dst)

\* How the future of a task whose copy or move raised ends: main.py's
\* move_file raises, Multithreading.py's prints the error and returns.
FailedFuture == IF variant = "gui" THEN "failed" ELSE "finished"

\* Task j is between an existence probe and its own write.
MidResolution(j) ==
    fut[j] = "running" /\ (wpc[j] = "write" \/ (wpc[j] = "probe" /\ counter[j] > 1))

\* The try block of move_file: the copy or move succeeds, or it raises
\* because the source is gone or because of another I/O error.
Relocate(i) ==
    /\ fut[i] = "running"
    /\ wpc[i] = "write"
    /\ \E io_error \in BOOLEAN :
          /\ io_error => faults < MaxFaults
          /\ IF io_error \/ ~Exists(tasks[i].src)
             THEN /\ faults' = IF io_error THEN faults + 1 ELSE faults
                  /\ outcome' = [outcome EXCEPT ![i] = "failed"]
                  /\ fut' = [fut EXCEPT ![i] = FailedFuture]
                  /\ errLogged' = IF variant = "console" THEN errLogged \cup {i}
                                   ELSE errLogged
                  /\ UNCHANGED <<fs, clobbered>>
             ELSE /\ fs' = Relocated(fs, tasks[i].src, target[i], tasks[i].copy_only)
                  /\ clobbered' = IF Exists(target[i])
                                  THEN clobbered \cup {[task |-> i, path |-> target[i]]}
                                  ELSE clobbered
                  /\ outcome' = [outcome EXCEPT ![i] = "ok"]
                  /\ fut' = [fut EXCEPT ![i] = "finished"]
                  /\ UNCHANGED <<faults, errLogged>>
    /\ wpc' = [wpc EXCEPT ![i] = "done"]
    /\ UNCHANGED <<config, dirs, is_running, pc, scanVars, tasks, submitted,
                   cancelIdx, target, counter, probed, extDeleted, mkdirFailed,
                   consumed, completed, progress, logged, status, stopSeen,
                   finished>>

\* ------------------------------------------------- the run: aggregation
\* Where the loop goes after fut.result(): the exception of a failed task
\* is caught by the try around it, and the loop goes on.
AfterResult(i) == "loop"

\* The quotients completed / len(tasks) whose double, multiplied by 100, lies
\* just below the whole number (0.29, 0.57 and 0.58): int() then truncates
\* to one less.
RoundsBelow(k, n) == k * 100 \in {29 * n, 57 * n, 58 * n}

\* progress = int((completed / len(tasks)) * 100)
Progress(k, n) == (k * 100) \div n - (IF RoundsBelow(k, n) THEN 1 ELSE 0)

\* The period of the line "completed k/total".
LogEveryGui == 10
LogEveryConsole == 100
LogEvery == IF variant = "gui" THEN LogEveryGui ELSE LogEveryConsole

\* Faulty variant: no line for the last task.
LogDueNoFinal(k, n) == k % LogEvery = 0

\* if completed % 10 == 0 or completed == len(tasks)
LogDue(k, n) == k % LogEvery = 0 \/ k = n

\* The body of the as_completed loop for one finished future.  The GUI run
\* leaves the loop for the cancel loop when it was stopped; otherwise the
\* result is taken (an exception is reported), completed is counted, the
\* progress is emitted (GUI) and the line "completed k/total" when it is due.
Consume(i) ==
    /\ pc = "loop"
    /\ Done(i)
    /\ i \notin consumed
    /\ IF variant = "gui" /\ ~is_running
       THEN /\ pc' = "cancel"
            /\ UNCHANGED aggVars
       ELSE /\ consumed' = consumed \cup {i}
            /\ completed' = completed + 1
            /\ errLogged' = IF fut[i] = "failed" THEN errLogged \cup {i} ELSE errLogged
            /\ progress' = IF variant = "gui"
                           THEN Progress(completed + 1, Len(tasks)) ELSE progress
            /\ logged' = IF LogDue(completed + 1, Len(tasks))
                         THEN Append(logged, completed + 1) ELSE logged
            /\ pc' = AfterResult(i)
    /\ UNCHANGED <<config, fs, dirs, is_running, scanVars, tasks, poolVars,
                   workerVars, extDeleted, faultVars, status, stopSeen, finished>>

\* as_completed is exhausted: every future was handled.
LoopEnd ==
    /\ pc = "loop"
    /\ consumed = TaskIds
    /\ pc' = "shutdown"
    /\ UNCHANGED <<config, fs, dirs, is_running, scanVars, tasks, poolVars,
                   workerVars, extDeleted, faultVars, aggVars, status, stopSeen,
                   finished>>

\* Faulty variant: a cancel() that leaves a pending future pending.
CancelledNot(state) == state

\* Future.cancel(): a pending future becomes cancelled, any other is left.
Cancelled(state) == IF state = "pending" THEN "cancelled" ELSE state

\* for f in futures: f.cancel(), one future at a time, then break.
CancelFutures ==
    /\ pc = "cancel"
    /\ IF cancelIdx < Len(tasks)
       THEN /\ cancelIdx' = cancelIdx + 1
            /\ fut' = [fut EXCEPT ![cancelIdx + 1] = Cancelled(fut[cancelIdx + 1])]
            /\ pc' = pc
       ELSE /\ pc' = "shutdown"
            /\ UNCHANGED <<cancelIdx, fut>>
    /\ UNCHANGED <<config, fs, dirs, is_running, scanVars, tasks, submitted,
                   workerVars, extDeleted, faultVars, aggVars, status, stopSeen,
                   finished>>

\* What the exit of the with block waits for: shutdown(wait=True) joins the
\* pool threads, which first run every work item still queued.
PoolIdle == \A i \in TaskIds : fut[i] \notin {"pending", "running"}

ShutdownWait ==
    /\ pc = "shutdown"
    /\ PoolIdle
    /\ pc' = "status"
    /\ UNCHANGED <<config, fs, dirs, is_running, scanVars, tasks, poolVars,
                   workerVars, extDeleted, faultVars, aggVars, status, stopSeen,
                   finished>>

\* Faulty variant: the closing line without the test of is_running.
StatusLineCompleted == "completed"

\* The closing status line.
StatusLine == IF variant = "gui" /\ ~is_running THEN "cancelled" ELSE "completed"

FinalStatus ==
    /\ pc = "status"
    /\ status' = StatusLine
    /\ stopSeen' = ~is_running
    /\ pc' = IF variant = "gui" THEN "finally" ELSE "done"
    /\ UNCHANGED <<config, fs, dirs, is_running, scanVars, tasks, poolVars,
                   workerVars, extDeleted, faultVars, aggVars, finished>>

\* except Exception: the error line (console: the handler around main()).
Except ==
    /\ pc = "except"
    /\ status' = "error"
    /\ stopSeen' = ~is_running
    /\ pc' = IF variant = "gui" THEN "finally" ELSE "done"
    /\ UNCHANGED <<config, fs, dirs, is_running, scanVars, tasks, poolVars,
                   workerVars, extDeleted, faultVars, aggVars, finished>>

\* finally: self.finished.emit()
Finally ==
    /\ pc = "finally"
    /\ finished' = finished + 1
    /\ pc' = "done"
    /\ UNCHANGED <<config, fs, dirs, is_running, scanVars, tasks, poolVars,
                   workerVars, extDeleted, faultVars, aggVars, status, stopSeen>>

\* ---------------------------------------------------------- environment
\* FileProcessingThread.stop(), called by the window while the run is on.
Stop ==
    /\ variant = "gui"
    /\ pc # "done"
    /\ is_running
    /\ is_running' = FALSE
    /\ UNCHANGED <<config, fs, dirs, pc, scanVars, tasks, poolVars, workerVars,
                   extDeleted, faultVars, aggVars, status, stopSeen, finished>>

\* The paths the scan recorded.
Scanned ==
    UNION {{files_by_type[j].files[k] : k \in DOMAIN files_by_type[j].files} :
           j \in DOMAIN files_by_type}

\* Another process deletes a source file between the scan and its relocation:
\* before the task list is built, or after it and before the first submit
\* (a later deletion is seen by no step that an earlier one is not seen by).
ExtDelete(p) ==
    /\ pc = "prepare" \/ (pc = "submit" /\ submitted = 0)
    /\ faults < MaxFaults
    /\ p \in Scanned
    /\ Exists(p)
    /\ fs' = [q \in DOMAIN fs \ {p} |-> fs[q]]
    /\ extDeleted' = extDeleted \cup {p}
    /\ faults' = faults + 1
    /\ UNCHANGED <<config, dirs, is_running, pc, scanVars, tasks, poolVars,
                   workerVars, mkdirFailed, aggVars, status, stopSeen, finished>>

Next ==
    \/ Validate
    \/ ScanFolder
    \/ PostScanCheck
    \/ Prepare
    \/ Submit
    \/ \E i \in TaskIds : StartTask(i)
    \/ \E i \in TaskIds : Probe(i)
    \/ \E i \in TaskIds : Relocate(i)
    \/ \E i \in TaskIds : Consume(i)
    \/ LoopEnd
    \/ CancelFutures
    \/ ShutdownWait
    \/ FinalStatus
    \/ Except
    \/ Finally
    \/ Stop
    \/ \E p \in DOMAIN fs : ExtDelete(p)

Spec == Init /\ [][Next]_vars

\* --------------------------------------------------------------- fairness
\* The steps of the processing thread (the main thread of the console
\* program).
RunStep ==
    \/ Validate
    \/ ScanFolder
    \/ PostScanCheck
    \/ Prepare
    \/ Submit
    \/ \E i \in TaskIds : Consume(i)
    \/ LoopEnd
    \/ CancelFutures
    \/ ShutdownWait
    \/ FinalStatus
    \/ Except
    \/ Finally

\* The steps of the pool thread that has, or takes, task i.
WorkerStep(i) ==
    /\ i \in TaskIds
    /\ StartTask(i) \/ Probe(i) \/ Relocate(i)

\* The operating system schedules every thread that can run: the processing
\* thread and the pool threads each take their next step.  Nothing is
\* assumed of the user (Stop) or of other processes (ExtDelete).
FairSpec ==
    /\ Spec
    /\ WF_vars(RunStep)
    /\ \A i \in Slots : WF_vars(WorkerStep(i))

\* ------------------------------------------- the aggregation loop at scale
\* The loop of lines 150-169 over a run of up to MaxTotal files of one month
\* folder, entered after the pool has finished every task: the files
\* f1.pdf ... fn.pdf were copied to the type directory pdf.
MaxTotal == 100

FileName(i) == <<"f" \o ToString(i), ".pdf">>

ManyTasks(n) ==
    [i \in 1..n |-> [src |-> SrcPath(1, FileName(i)),
                     dst |-> [dir |-> TypeDir("pdf"), name |-> FileName(i)],
                     copy_only |-> TRUE]]

ManyFiles(ts) ==
    [p \in {ts[i].src : i \in DOMAIN ts} \cup {ts[i].dst : i \in DOMAIN ts} |->
        Content(CHOOSE i \in DOMAIN ts : p \in {ts[i].src, ts[i].dst})]

AggInit ==
    /\ WindowRunning
    /\ variant \in {"gui", "console"}
    /\ copy_only = TRUE
    /\ use_date = FALSE
    /\ links = <<>>
    /\ \E n \in 1..MaxTotal :
          LET ts == ManyTasks(n) IN
          /\ tasks = ts
          /\ fs = ManyFiles(ts)
          /\ fs0 = [p \in {ts[i].src : i \in DOMAIN ts} |-> fs[p]]
          /\ files_by_type = <<[key |-> "pdf", files |-> [i \in 1..n |-> ts[i].src]]>>
          /\ submitted = n
          /\ fut = [i \in 1..n |-> "finished"]
          /\ wpc = [i \in 1..n |-> "done"]
          /\ target = [i \in 1..n |-> ts[i].dst]
          /\ counter = [i \in 1..n |-> 1]
          /\ probed = [i \in 1..n |-> TRUE]
          /\ outcome = [i \in 1..n |-> "ok"]
    /\ dirs0 = InitDirs(TRUE, 0)
    /\ dirs = dirs0 \cup Parents(TypeDir("pdf"))
    /\ is_running = TRUE
    /\ pc = "loop"
    /\ scanIdx = MaxFiles + 1
    /\ cancelIdx = 0
    /\ clobbered = {}
    /\ extDeleted = {}
    /\ faults = 0
    /\ mkdirFailed = "none"
    /\ consumed = {}
    /\ completed = 0
    /\ errLogged = {}
    /\ progress = 0
    /\ logged = <<>>
    /\ status = "none"
    /\ stopSeen = FALSE
    /\ finished = 0

\* as_completed hands over the finished futures one by one; they are all
\* alike here, so the loop takes them in the order of the list.
ConsumeNext ==
    /\ completed < Len(tasks)
    /\ Consume(completed + 1)

AggNext ==
    \/ ConsumeNext
    \/ LoopEnd
    \/ CancelFutures
    \/ ShutdownWait
    \/ FinalStatus
    \/ Finally
    \/ Stop

AggSpec == AggInit /\ [][AggNext]_vars

\* ------------------------------------------------------------- the window
\* MainWindow and its threads.  A thread's run() is followed here by its
\* exits only: where it emits finished and where it returns.
runVars == <<variant, copy_only, use_date, fs, links, dirs, fs0, dirs0,
             is_running, pc, scanVars, tasks, poolVars, workerVars, extDeleted,
             faultVars, aggVars, status, stopSeen, finished>>

\* The window after init_ui, nothing started.  The Cancel button is as the
\* form MainUi_ui made it, enabled or not.
GuiInit ==
    /\ Start_2 = TRUE
    /\ Cancel_2 \in BOOLEAN
    /\ processing_thread = 0
    /\ threads = [t \in Threads |-> NoThread]
    /\ events = <<>>
    /\ variant = "gui"
    /\ copy_only = TRUE
    /\ use_date = FALSE
    /\ fs = InitFs(<<>>, 0, 0)
    /\ links = InitLinks(<<>>, 0)
    /\ dirs = InitDirs(TRUE, 0)
    /\ fs0 = fs
    /\ dirs0 = dirs
    /\ is_running = TRUE
    /\ pc = "validate"
    /\ scanIdx = 1
    /\ files_by_type = <<>>
    /\ tasks = <<>>
    /\ submitted = 0
    /\ cancelIdx = 0
    /\ fut = <<>>
    /\ wpc = <<>>
    /\ target = <<>>
    /\ counter = <<>>
    /\ probed = <<>>
    /\ outcome = <<>>
    /\ clobbered = {}
    /\ extDeleted = {}
    /\ faults = 0
    /\ mkdirFailed = "none"
    /\ consumed = {}
    /\ completed = 0
    /\ errLogged = {}
    /\ progress = 0
    /\ logged = <<>>
    /\ status = "none"
    /\ stopSeen = FALSE
    /\ finished = 0

\* QThread.isRunning(): started, and run() has not returned.
isRunning(t) == threads[t].at \in {"run", "finally", "return"}

\* A click on Start, which the button takes only while it is enabled, with
\* an input path given: the buttons are switched, a new thread is created,
\* stored in processing_thread and started.
start_processing ==
    /\ Start_2
    /\ \E t \in Threads :
          /\ threads[t].at = "none"
          /\ \A u \in Threads : u < t => threads[u].at # "none"
          /\ Start_2' = FALSE
          /\ Cancel_2' = TRUE
          /\ processing_thread' = t
          /\ threads' = [threads EXCEPT ![t] = NewThread]
    /\ UNCHANGED <<events, runVars>>

\* A click on Cancel, which the button takes only while it is enabled.
cancel_processing ==
    /\ Cancel_2
    /\ IF processing_thread # 0 /\ isRunning(processing_thread)
       THEN /\ threads' = [threads EXCEPT ![processing_thread].is_running = FALSE]
            /\ Cancel_2' = FALSE
       ELSE UNCHANGED <<threads, Cancel_2>>
    /\ UNCHANGED <<Start_2, processing_thread, events, runVars>>

\* run() leaves by one of its early exits (invalid input path; stopped
\* during the scan; no file found): it emits finished and returns, which
\* takes it into the finally clause.
ThreadEarlyReturn(t) ==
    /\ threads[t].at = "run"
    /\ \E exit \in {"invalid_root", "scan_cancelled", "no_files"} :
          exit = "scan_cancelled" => ~threads[t].is_running
    /\ events' = Append(events, t)
    /\ threads' = [threads EXCEPT ![t].at = "finally"]
    /\ UNCHANGED <<Start_2, Cancel_2, processing_thread, runVars>>

\* run() reaches the end of its try block, or its exception handler.
ThreadBody(t) ==
    /\ threads[t].at = "run"
    /\ threads' = [threads EXCEPT ![t].at = "finally"]
    /\ UNCHANGED <<Start_2, Cancel_2, processing_thread, events, runVars>>

\* finally: self.finished.emit()
ThreadFinally(t) ==
    /\ threads[t].at = "finally"
    /\ events' = Append(events, t)
    /\ threads' = [threads EXCEPT ![t].at = "return"]
    /\ UNCHANGED <<Start_2, Cancel_2, processing_thread, runVars>>

\* run() returns and the thread ends.
ThreadReturn(t) ==
    /\ threads[t].at = "return"
    /\ threads' = [threads EXCEPT ![t].at = "done"]
    /\ UNCHANGED <<Start_2, Cancel_2, processing_thread, events, runVars>>

\* The window's event loop delivers a queued finished signal to its slot.
on_process_finished ==
    /\ events # <<>>
    /\ events' = Tail(events)
    /\ Start_2' = TRUE
    /\ Cancel_2' = FALSE
    /\ processing_thread' = 0
    /\ UNCHANGED <<threads, runVars>>

GuiNext ==
    \/ start_processing
    \/ cancel_processing
    \/ \E t \in Threads : ThreadEarlyReturn(t)
    \/ \E t \in Threads : ThreadBody(t)
    \/ \E t \in Threads : ThreadFinally(t)
    \/ \E t \in Threads : ThreadReturn(t)
    \/ on_process_finished

GuiSpec == GuiInit /\ [][GuiNext]_vars

\* ================================================================ claims
InOutput(p) == p.dir[1] = OutRoot[1]

\* The files of the output tree before the run.
PreExisting == {p \in DOMAIN fs0 : InOutput(p)}

Succeeded(i) == outcome[i] = "ok"
Failed(i) == outcome[i] = "failed"
Executed(i) == outcome[i] # "none"

\* C1: no copy or move of move_file ever writes to a path at which a file
\* exists at the moment of the write, and no two tasks of a run end at the
\* same final path.
C1_NeverWritesOverExisting ==
    /\ clobbered = {}
    /\ \A i, j \in TaskIds :
          i # j /\ Succeeded(i) /\ Succeeded(j) => target[i] # target[j]

\* C2: every file of the output tree that existed before the run is still
\* at its path with its content, in every state of every run; and a task
\* whose candidate name was taken before the run has stored its file under
\* another, free name of the same directory.
C2_PreExistingKept ==
    /\ \A p \in PreExisting : Exists(p) /\ fs[p] = fs0[p]
    /\ \A i \in TaskIds :
          Succeeded(i) /\ tasks[i].dst \in PreExisting =>
              /\ target[i] # tasks[i].dst
              /\ target[i] \notin PreExisting
              /\ target[i].dir = tasks[i].dst.dir
              /\ Exists(target[i])

\* A finished run in which a file went to a candidate name that was taken
\* before the run.
C2_Witness ==
    /\ pc = "done"
    /\ \E i \in TaskIds : Succeeded(i) /\ tasks[i].dst \in PreExisting

\* stem(n)ext for the candidate stem+ext.
Numbered(candidate, n) == WithCounter(candidate, n)

\* The path C3 states for a candidate: the candidate when it is free, else
\* stem(k)ext for the least k >= 1 at which that path is free.
ClaimedPath(candidate, taken) ==
    IF candidate \notin taken THEN candidate
    ELSE Numbered(candidate,
                  CHOOSE k \in 1..(Cardinality(taken) + 1) :
                      /\ Numbered(candidate, k) \notin taken
                      /\ \A n \in 1..(k - 1) : Numbered(candidate, n) \in taken)

\* C3: the collision loop returns stem(k)ext for the first k >= 1 at which
\* that path does not exist.  Stated for a task that has left the loop while
\* no task of the run has written yet, so that the existing files are those
\* of before the run.
C3_ResultIsStemK ==
    \A i \in TaskIds :
        probed[i] /\ (\A j \in TaskIds : ~Succeeded(j)) =>
            target[i] = ClaimedPath(tasks[i].dst, DOMAIN fs0)

C6_StopMeansCancelled ==
    /\ pc = "done" /\ stopSeen => status \in {"cancelled", "scan_cancelled"}
    /\ finished > 0 => \A i \in TaskIds : fut[i] # "running"
    /\ status = "completed" => \A i \in TaskIds : Executed(i)

\* C6, amended: a run stopped before it decided its status never ends with
\* the completed line; it ends with the cancelled line when it has tasks,
\* and otherwise with the line of the scan's cancellation, of the invalid
\* root, of the empty task list or of the exception that ended it.  The
\* other two parts are as stated.
C6_StopNeverCompleted ==
    /\ pc = "done" /\ stopSeen => status # "completed"
    /\ pc = "done" /\ stopSeen /\ tasks # <<>> => status = "cancelled"
    /\ pc = "done" /\ stopSeen /\ tasks = <<>> =>
          status \in {"scan_cancelled", "invalid_root", "no_files", "error"}
    /\ finished > 0 => \A i \in TaskIds : fut[i] # "running"
    /\ status = "completed" => \A i \in TaskIds : Executed(i)

\* A run stopped while a task was pending and another in flight: it ended
\* cancelled, the task in flight ran to its end.
C6_Witness ==
    /\ pc = "done"
    /\ stopSeen
    /\ status = "cancelled"
    /\ \E i \in TaskIds : fut[i] = "cancelled"
    /\ \E j \in TaskIds : Succeeded(j) /\ j \notin consumed

\* C7: in a run that is not cancelled and has a failed task, every task was
\* executed, every task whose copy or move succeeded has its file at the
\* path it wrote, and every failed task is reported.
C7_FailureIsolated ==
    pc = "done" /\ status = "completed" /\ (\E f \in TaskIds : Failed(f)) =>
        \A t \in TaskIds :
            /\ Executed(t)
            /\ Succeeded(t) => Exists(target[t]) /\ fs[target[t]] = fs0[tasks[t].src]
            /\ Failed(t) => t \in errLogged

\* C8: after a run in move mode that was not cancelled and in which every
\* task succeeded, no file the scan recorded is left at its source path.
C8_MoveEmptiesSource ==
    ~copy_only /\ pc = "done" /\ status = "completed"
               /\ (\A i \in TaskIds : Succeeded(i)) =>
        \A p \in Scanned : ~Exists(p)

\* A completed run in move mode that moved at least two files.
C8_Witness ==
    /\ ~copy_only
    /\ pc = "done"
    /\ status = "completed"
    /\ Len(tasks) >= 2
    /\ \A i \in TaskIds : Succeeded(i)

\* C9: in copy mode every file the scan recorded is at its source path with
\* its content in every state of the run, unless another process deleted it.
C9_CopyKeepsSource ==
    copy_only =>
        \A p \in Scanned : p \in extDeleted \/ (Exists(p) /\ fs[p] = fs0[p])

\* A run in copy mode has ended cancelled with a task copied, one failed and
\* one never started.
C9_Witness ==
    /\ copy_only
    /\ pc = "done"
    /\ status = "cancelled"
    /\ \E i \in TaskIds : Succeeded(i)
    /\ \E i \in TaskIds : Failed(i)
    /\ \E i \in TaskIds : fut[i] = "cancelled"

\* C10: with an input root that is no directory the run ends at once: no
\* file and no directory changes, no task is built, no future is created;
\* and a task that fails never takes the run to the exception handler: a run
\* with a failed task that was not stopped ends completed, every task
\* executed and its result handled.
C10_InvalidRootNoMutation ==
    /\ InRoot \notin dirs =>
          /\ fs = fs0
          /\ dirs = dirs0
          /\ tasks = <<>>
          /\ submitted = 0
          /\ pc \in {"validate", "finally", "done"}
          /\ status \in {"none", "invalid_root"}
    /\ (\E f \in TaskIds : Failed(f)) =>
          /\ pc # "except"
          /\ status # "error"
          /\ pc = "done" /\ ~stopSeen =>
                /\ status = "completed"
                /\ consumed = TaskIds
                /\ \A i \in TaskIds : Executed(i)

\* A run on an input root that is no directory has ended, with files in the
\* output tree it could have touched.
C10_Witness ==
    /\ InRoot \notin dirs
    /\ pc = "done"
    /\ status = "invalid_root"
    /\ PreExisting # {}

\* C11: every task whose copy or move failed is reported by an error line,
\* in every run that has ended, a cancelled run included.
C11_FailureLogged ==
    pc = "done" => \A i \in TaskIds : Failed(i) => i \in errLogged

\* The task the run built for a recorded path was executed.
ExecutedPath(p) == \E i \in TaskIds : tasks[i].src = p /\ Executed(i)

\* C12: when the type directory of one key cannot be created, the run goes
\* on: it is not ended by the exception, and in a run that was not stopped
\* the files of every other key are relocated by a task.
C12_MkdirFailureIsolated ==
    pc = "done" /\ mkdirFailed # "none" /\ ~stopSeen =>
        /\ status = "completed"
        /\ \A j \in DOMAIN files_by_type :
              files_by_type[j].key # mkdirFailed =>
                  \A k \in DOMAIN files_by_type[j].files :
                      ExecutedPath(files_by_type[j].files[k])

\* The recorded paths, bucket after bucket, in the order of the dict.
RECURSIVE Recorded(_)
Recorded(buckets) ==
    IF buckets = <<>> THEN <<>>
    ELSE Head(buckets).files \o Recorded(Tail(buckets))

\* The run has built its task list.
TasksBuilt ==
    \/ pc \in {"submit", "loop", "cancel", "shutdown", "status"}
    \/ status \in {"no_files", "completed", "cancelled"}

\* C13: the tasks are the recorded paths of the scan, one task per path and
\* as many as total_files; every task is submitted once; a task that was
\* started, has ended or was cancelled is never queued or started again and
\* keeps its outcome; a run that ends with the completed line has executed
\* every task.
C13_OneTaskPerPath ==
    /\ [](TasksBuilt =>
            /\ Len(tasks) = total_files(files_by_type)
            /\ [i \in TaskIds |-> tasks[i].src] = Recorded(files_by_type)
            /\ submitted <= Len(tasks)
            /\ \A i \in TaskIds : (fut[i] # "none") = (i <= submitted)
            /\ pc \in {"loop", "cancel", "shutdown", "status"} =>
                  submitted = Len(tasks))
    /\ [](pc = "done" /\ status = "completed" =>
            \A i \in TaskIds : Executed(i) /\ Done(i) /\ wpc[i] = "done")
    /\ [][\A i \in TaskIds :
            /\ fut[i] \notin {"none", "pending"} => fut'[i] \notin {"none", "pending"}
            /\ fut[i] \notin {"pending", "running"} => fut'[i] # "running"
            /\ Executed(i) => outcome'[i] = outcome[i] /\ wpc'[i] = "done"]_vars

\* A run over files of two keys has ended completed, every slot a task, one
\* of them failed.
C13_Witness ==
    /\ pc = "done"
    /\ status = "completed"
    /\ Len(tasks) = MaxFiles
    /\ Len(files_by_type) > 1
    /\ \E i \in TaskIds : Failed(i)

\* How often the line "completed k/total" was emitted.
LinesFor(k) == Cardinality({j \in DOMAIN logged : logged[j] = k})

\* C14: completed counts the consumed results, is raised by one and only by
\* a step of the aggregation loop, and never exceeds the number of tasks;
\* the emitted progress never decreases, lies in 0..100 and is 100 exactly
\* when completed is the number of tasks; the line "completed k/total" was
\* emitted once for every k up to completed that is a multiple of the period
\* or the number of tasks, and for no other k.
C14_ProgressAndLines ==
    /\ [](/\ completed = Cardinality(consumed)
          /\ completed <= Len(tasks)
          /\ progress \in 0..100
          /\ variant = "gui" /\ completed > 0 =>
                (progress = 100) = (completed = Len(tasks))
          /\ variant = "console" => progress = 0
          /\ \A k \in 1..MaxTotal :
                LinesFor(k) =
                    IF k <= completed /\ (k % LogEvery = 0 \/ k = Len(tasks))
                    THEN 1 ELSE 0
          /\ pc = "done" /\ status = "completed" =>
                completed = Len(tasks) /\ LinesFor(Len(tasks)) = 1)
    /\ [][/\ progress' >= progress
          /\ completed' # completed =>
                /\ completed' = completed + 1
                /\ pc = "loop"
                /\ fut' = fut /\ wpc' = wpc
                /\ \E i \in TaskIds : i \notin consumed /\ consumed' = consumed \cup {i}]_vars

\* A GUI run of more tasks than twice the period has ended completed: lines
\* were emitted for the multiples of the period and one for the last task,
\* which is no multiple.
C14_Witness ==
    /\ variant = "gui"
    /\ pc = "done"
    /\ status = "completed"
    /\ Len(tasks) > 2 * LogEveryGui
    /\ Len(tasks) % LogEveryGui # 0
    /\ Len(logged) = 3
    /\ progress = 100

\* The month folders the scan loop has been through.
ScannedFolders == {month_dirs[m] : m \in 1..Min(scanIdx - 1, Len(month_dirs))}

\* C15: every recorded path is a regular file that the scan visited as
\* itself; no directory and no symbolic link adds a record; a path is
\* recorded once, in one bucket; and the key of its bucket is the lower-cased
\* extension of the recorded path without the dot, no_ext when it has none.
C15_ScanBuckets ==
    /\ \A j \in DOMAIN files_by_type : \A k \in DOMAIN files_by_type[j].files :
          LET p == files_by_type[j].files[k] IN
          /\ p \in DOMAIN fs0
          /\ p.dir \in ScannedFolders
          /\ files_by_type[j].key = Classify(p.name)
          /\ \A j2 \in DOMAIN files_by_type : \A k2 \in DOMAIN files_by_type[j2].files :
                files_by_type[j2].files[k2] = p => j2 = j /\ k2 = k
    /\ total_files(files_by_type) =
          Cardinality({p \in DOMAIN fs0 : p.dir \in ScannedFolders})

\* C16: under fair scheduling every run ends: the collision loop of every
\* worker makes no more probes than there are files that can be in its way
\* (those of before the run and one per task), every task that was started
\* runs to its end, and the processing thread reaches its end, the finished
\* signal emitted (GUI), whether the run completes, has failing tasks, fails
\* itself or is cancelled.
C16_Terminates ==
    /\ [](\A i \in TaskIds : counter[i] <= Cardinality(PreExisting) + Len(tasks))
    /\ <>[](/\ pc = "done"
            /\ variant = "gui" => finished > 0
            /\ \A i \in TaskIds : wpc[i] \in {"idle", "done"} /\ fut[i] # "running")

\* A run has ended in which a worker went twice round its collision loop,
\* once for a file another worker of the run had stored meanwhile.
C16_Witness ==
    /\ pc = "done"
    /\ finished > 0
    /\ \E i \in TaskIds :
          /\ Succeeded(i)
          /\ counter[i] > Cardinality(PreExisting) + 1

\* C17: a GUI run emits the finished signal once: never twice, and once when
\* run() has returned, whatever the exit path.
C17_FinishedOnce ==
    variant = "gui" => finished <= 1 /\ (pc = "done" => finished = 1)

\* C18: at most one thread is running at a time, and while a thread is
\* running the Start button is disabled and processing_thread is that thread.
C18_OneThreadAtATime ==
    /\ Cardinality({t \in Threads : isRunning(t)}) <= 1
    /\ \A t \in Threads : isRunning(t) => ~Start_2 /\ processing_thread = t
====
